---- MODULE Spec2Model ----
(***************************************************************************)
(* Model of src/tojota.py: the Myt class of the Toyota API client.         *)
(*                                                                         *)
(* Two parts share one set of variables:                                   *)
(*   - the session lifecycle: Myt.__init__, Myt._get_user_data, Myt.login  *)
(*     (specification Spec);                                               *)
(*   - the data retrieval operations and their snapshot files:             *)
(*     get_trips, get_trip, get_parking, get_telemetry,                    *)
(*     get_remote_control_status, get_driving_statistics                   *)
(*     (specification SpecData; SpecText, SpecValue and SpecTrip run the   *)
(*     methods that compare texts, those that compare parsed values, and   *)
(*     get_trip, each group on its own).                                   *)
(*                                                                         *)
(* Every method is one action.  What the network answers to a request is   *)
(* an input of the action, drawn from a small set with \E.                 *)
(***************************************************************************)
EXTENDS Naturals, Sequences, FiniteSets, TLC

VARIABLES
    now,        \* the wall clock read by pendulum.now()
    userFile,   \* contents of cache/user_data.json
    user_data,  \* self.user_data
    headers,    \* self.headers
    pc,         \* "start": no Myt object yet, "ready": constructed, "failed": __init__ raised
    snaps,      \* per category, the files cache/<category>/<category>-<time>
    trips,      \* per trip id, the contents of cache/trips/xx/yy/<trip id>
    fetches,    \* per trip id, how many trip requests were sent so far
    last        \* what the last call did: its requests, its result

vars == <<now, userFile, user_data, headers, pc, snaps, trips, fetches, last>>

-----------------------------------------------------------------------------
(* Bounds of the model *)

MaxTime == 2    \* the clock runs over 0..MaxTime
MaxLife == 2    \* the provider's expires_in runs over 0..MaxLife
MaxLen  == 2    \* a response body is a JSON object text of at most MaxLen members
MaxCalls == 2   \* the data retrieval operations are called at most MaxCalls times

-----------------------------------------------------------------------------
(* Values *)

None    == "None"       \* Python's None
NoKey   == "NoKey"      \* the key is not in the dict

Messages == {"m1", "m2"}   \* texts the provider puts in callbacks[0].output[0].value

\* A session record, as login() assembles it (lines 199-206) and as json.load
\* gives it back.  legacy says whether the provider's token response carried
\* the pass-through members 'token' and 'customerProfile' that get_trip and
\* get_driving_statistics read.
SessionRecord(at, rt, uuid, exp, legacy) ==
    [kind |-> "dict", access_token |-> at, refresh_token |-> rt, uuid |-> uuid,
     expiration |-> exp, legacy |-> legacy]

Blank(kind) ==
    [kind |-> kind, access_token |-> NoKey, refresh_token |-> NoKey, uuid |-> NoKey,
     expiration |-> 0, legacy |-> FALSE]

NoneValue     == Blank("None")        \* self.user_data = None
FileAbsent    == Blank("absent")      \* cache/user_data.json does not exist
FileMalformed == Blank("malformed")   \* it exists and holds no JSON document

\* The session files an earlier run can have left behind.
StoredRecords ==
    { SessionRecord("a1", rt, "u1", exp, legacy) :
        rt \in {NoKey, "r1"}, exp \in 0..MaxTime, legacy \in BOOLEAN }

NoHeaders == [Authorization |-> None, guid |-> None, x_guid |-> None]

NoErr == [type |-> "none", text |-> "", detail |-> None]
Err(type, text, detail) == [type |-> type, text |-> text, detail |-> detail]

\* A parsed JSON document: a dict, as the set of its <<name, value>> items, or None.
Value(kind, items) == [kind |-> kind, items |-> items]
PyNone == Value("None", {})

\* A request the program sent, with the part of the answer the code looks at.
Request(kind, arg, resp) == [kind |-> kind, arg |-> arg, resp |-> resp]

-----------------------------------------------------------------------------
(* What the network can answer during login() *)

\* Shapes of an answer of the authenticate endpoint:
\*   "challenge": JSON with callbacks[0].input[0] (a slot to fill in),
\*   "message":   JSON with callbacks[0].output[0].value and no 'input' member,
\*   "garbage":   not a JSON document.
\* (These are the answers the identity provider gives; a JSON answer whose
\* 'input' member is an empty list is not among them.)
Shapes == {"challenge", "message", "garbage"}

\* Bodies of an answer of the token endpoint:
\*   "garbage": not JSON; "incomplete": JSON without id_token or expires_in;
\*   "tokens": JSON with the members login() reads.
TokenBodies ==
    [kind : {"garbage", "incomplete"}, access_token : {"a2"}, refresh_token : {NoKey},
     uuid : {"u2"}, expires_in : {0}, legacy : {FALSE}]
    \cup
    [kind : {"tokens"}, access_token : {"a2"}, refresh_token : {NoKey, "r2"},
     uuid : {"u2"}, expires_in : 0..MaxLife, legacy : BOOLEAN]

\* The answers to one run of login(): one per request it can send.
AllGood(token) ==
    [ctx |-> "challenge", pwd |-> "challenge", msg |-> "m1", login |-> "ok",
     redirect |-> "code", tokenOk |-> TRUE, token |-> token]

\* Every answer is good up to the first one that is not; what follows a
\* failing answer is never asked for, so it is left at its default.
Nets ==
    LET good == AllGood(CHOOSE b \in TokenBodies : b.kind = "tokens")
    IN  { [good EXCEPT !.ctx = x] : x \in Shapes }
        \cup { [good EXCEPT !.pwd = x, !.msg = m] : x \in Shapes, m \in Messages }
        \cup { [good EXCEPT !.login = x] : x \in {"ok", "denied", "garbage"} }
        \cup { [good EXCEPT !.redirect = x] : x \in {"code", "nocode"} }
        \cup { [good EXCEPT !.tokenOk = FALSE] }
        \cup { AllGood(b) : b \in TokenBodies }

-----------------------------------------------------------------------------
(* Myt._get_user_data, lines 83-97 *)

\* json.load of the session file: [raised, value].  A missing file gives None
\* (line 96-97); a file that is no JSON document re-raises (line 92-94).
\* (variant: a file that is no JSON document gives None, as the docstring says)
get_user_data_lenient(file) ==
    IF file.kind \in {"absent", "malformed"}
    THEN [raised |-> NoErr, value |-> NoneValue]
    ELSE [raised |-> NoErr, value |-> file]

get_user_data(file) ==
    CASE file.kind = "absent"    -> [raised |-> NoErr, value |-> NoneValue]
      [] file.kind = "malformed" -> [raised |-> Err("JSONDecodeError", "", None),
                                     value |-> NoneValue]
      [] OTHER                   -> [raised |-> NoErr, value |-> file]

-----------------------------------------------------------------------------
(* Myt.login, lines 137-209 *)

\* line 199: r.json() of the token response, the members login() and the
\* claims look at.
token_response(tok) ==
    Value("dict",
          {<<"expires_in", tok.expires_in>>}
          \cup (IF tok.refresh_token = NoKey THEN {}
                ELSE {<<"refresh_token", tok.refresh_token>>}))

Outcome(raised, reqs, ud, wrote) ==
    [raised |-> raised, reqs |-> reqs, user_data |-> ud, wrote |-> wrote]

\* lines 199-209: the token response becomes the session record, in memory
\* and on disk.  Nothing is kept of the previous record.
\* (variant: the expiration is the lifetime, the time of the login not added)
login_store_lifetime_only(ud, net, t, reqs) ==
    CASE net.token.kind = "garbage" ->
            Outcome(Err("JSONDecodeError", "", None), reqs, ud, FALSE)
      [] net.token.kind = "incomplete" ->
            Outcome(Err("KeyError", "", None), reqs, ud, FALSE)
      [] OTHER ->
            Outcome(NoErr, reqs,
                    SessionRecord(net.token.access_token, net.token.refresh_token,
                                  net.token.uuid, net.token.expires_in,
                                  net.token.legacy),
                    TRUE)

login_store(ud, net, t, reqs) ==
    CASE net.token.kind = "garbage" ->
            Outcome(Err("JSONDecodeError", "", None), reqs, ud, FALSE)
      [] net.token.kind = "incomplete" ->
            Outcome(Err("KeyError", "", None), reqs, ud, FALSE)
      [] OTHER ->
            Outcome(NoErr, reqs,
                    SessionRecord(net.token.access_token, net.token.refresh_token,
                                  net.token.uuid, t + net.token.expires_in,
                                  net.token.legacy),
                    TRUE)

\* lines 188-195: the refresh request carries the stored refresh token.
\* (variant: the access token is sent in place of the refresh token)
refresh_request_wrong_token(ud, net) ==
    Request("token_refresh", ud.access_token, IF net.tokenOk THEN "ok" ELSE "not ok")

refresh_request(ud, net) ==
    Request("token_refresh", ud.refresh_token, IF net.tokenOk THEN "ok" ELSE "not ok")

\* line 196: 'if not r.ok'.
\* (variant: the status of the answer is not looked at)
refresh_failed_ignored(net) == FALSE

refresh_failed(net) == ~net.tokenOk

\* lines 186-197: the refresh flow.
login_refresh(ud, net, t) ==
    LET reqs == << refresh_request(ud, net) >>
    IN  IF refresh_failed(net)
        THEN Outcome(Err("ValueError", "refresh token failed", None), reqs, ud, FALSE)
        ELSE login_store(ud, net, t, reqs)

\* lines 158-161: filling in the password raises KeyError when the answer to
\* the username has no 'input' member.
\* (variant: the KeyError is swallowed and login goes on)
password_slot_missing_ignored(net) == FALSE

password_slot_missing(net) == net.pwd = "message"

\* lines 148-184: the interactive flow.
login_interactive(ud, net, t) ==
    LET r1 == << Request("authenticate", "init", "any") >>                  \* line 150
        r2 == Append(r1, Request("authenticate", "context", net.ctx))       \* line 152
        r3 == Append(r2, Request("authenticate", "username",                \* line 156
                                 IF net.pwd = "message" THEN net.msg ELSE net.pwd))
        r4 == Append(r3, Request("authenticate", "password", net.login))    \* line 163
        r5 == Append(r4, Request("authorize", "tokenId", net.redirect))     \* line 170
        r6 == Append(r5, Request("token_authorization_code", "code",        \* line 182
                                 IF net.tokenOk THEN "ok" ELSE "not ok"))
    IN  CASE net.ctx = "garbage" ->                                          \* line 153
                Outcome(Err("JSONDecodeError", "", None), r2, ud, FALSE)
          [] net.ctx = "message" ->                                          \* line 154
                Outcome(Err("KeyError", "", None), r2, ud, FALSE)
          [] net.pwd = "garbage" ->                                          \* line 157
                Outcome(Err("JSONDecodeError", "", None), r3, ud, FALSE)
          [] password_slot_missing(net) ->                                   \* lines 158-161
                Outcome(Err("ValueError", "check your username", net.msg), r3, ud, FALSE)
          [] net.login = "denied" ->                                         \* lines 164-165
                Outcome(Err("ValueError", "check your password", None), r4, ud, FALSE)
          [] net.login = "garbage" ->                                        \* line 166
                Outcome(Err("JSONDecodeError", "", None), r4, ud, FALSE)
          [] net.redirect = "nocode" ->                                      \* line 171
                Outcome(Err("KeyError", "", None), r5, ud, FALSE)
          [] ~net.tokenOk ->                                                 \* lines 183-184
                Outcome(Err("ValueError", "authorization tokens failed", None), r6, ud, FALSE)
          [] OTHER -> login_store(ud, net, t, r6)

\* line 147: '"refresh_token" not in self.user_data' selects the flow; with
\* self.user_data = None the 'in' test itself raises TypeError.
\* (variant: 'in' for 'not in')
login_flows_swapped(ud, net, t) ==
    CASE ud.kind = "None" ->
            Outcome(Err("TypeError", "", None), << >>, ud, FALSE)
      [] ud.refresh_token # NoKey -> login_interactive(ud, net, t)
      [] OTHER -> login_refresh(ud, net, t)

login(ud, net, t) ==
    CASE ud.kind = "None" ->
            Outcome(Err("TypeError", "", None), << >>, ud, FALSE)
      [] ud.refresh_token = NoKey -> login_interactive(ud, net, t)
      [] OTHER -> login_refresh(ud, net, t)

-----------------------------------------------------------------------------
(* Myt.__init__, lines 48-65 *)

\* lines 58-65: the headers of the data requests, from the session record.
make_headers(ud) ==
    [Authorization |-> ud.access_token, guid |-> ud.uuid, x_guid |-> ud.uuid]

\* line 55: 'not self.user_data or pendulum.now() > pendulum.parse(expiration)'.
\* (variant: '<' for '>')
needs_login_reversed(ud, t) == ud.kind = "None" \/ t < ud.expiration

needs_login(ud, t) == ud.kind = "None" \/ t > ud.expiration

Built(raised, loaded, reqs, ud, wrote, hdrs) ==
    [raised |-> raised, loaded |-> loaded, reqs |-> reqs, user_data |-> ud,
     wrote |-> wrote, headers |-> hdrs]

\* The constructor as a function of the session file, the clock and the
\* network's answers.
Myt_init(file, net, t) ==
    LET g == get_user_data(file)                                \* line 54
    IN  IF g.raised # NoErr
        THEN Built(g.raised, NoneValue, << >>, NoneValue, FALSE, NoHeaders)
        ELSE IF needs_login(g.value, t)                         \* line 55
        THEN LET o == login(g.value, net, t)                    \* line 56
             IN  IF o.raised # NoErr
                 THEN Built(o.raised, g.value, o.reqs, g.value, FALSE, NoHeaders)
                 ELSE Built(NoErr, g.value, o.reqs, o.user_data, o.wrote,
                            make_headers(o.user_data))
        ELSE Built(NoErr, g.value, << >>, g.value, FALSE, make_headers(g.value))

-----------------------------------------------------------------------------
(* The record of the last call *)

NoResp == [status |-> 0, body |-> [kind |-> "none", members |-> << >>]]

\* op, arg: the method called and its argument; t: the time of the call;
\* loaded: what __init__ read from the session file; reqs: the requests sent;
\* raised: the exception that ended the call, NoErr when it returned;
\* resp: the answer to a data request; value, fresh: what the call returned
\* (for __init__ and login, which return nothing: the token response that
\* became the session record); wrote: whether it wrote a file.
Last(op, arg, t, loaded, reqs, raised, resp, value, fresh, wrote) ==
    [op |-> op, arg |-> arg, t |-> t, loaded |-> loaded, reqs |-> reqs,
     raised |-> raised, resp |-> resp, value |-> value, fresh |-> fresh,
     wrote |-> wrote]

NoCall == Last("none", None, 0, NoneValue, << >>, NoErr, NoResp, PyNone, FALSE, FALSE)

-----------------------------------------------------------------------------
(* The session lifecycle: specification Spec *)

Categories == {"trips", "parking", "odometer", "remote_control", "statistics"}
TripIds == {"t1", "t2"}

Init ==
    /\ now = 0
    /\ userFile \in {FileAbsent, FileMalformed} \cup StoredRecords
    /\ user_data = NoneValue
    /\ headers = NoHeaders
    /\ pc = "start"
    /\ snaps = [c \in Categories |-> {}]
    /\ trips = [i \in TripIds |-> << >>]
    /\ fetches = [i \in TripIds |-> 0]
    /\ last = NoCall

\* myt = Myt()
Construct ==
    /\ pc = "start"
    /\ \E net \in Nets :
         LET b == Myt_init(userFile, net, now)
         IN  /\ pc' = IF b.raised = NoErr THEN "ready" ELSE "failed"
             /\ user_data' = b.user_data
             /\ headers' = b.headers
             /\ userFile' = IF b.wrote THEN b.user_data ELSE userFile
             /\ last' = Last("init", None, now, b.loaded, b.reqs, b.raised, NoResp,
                             IF b.wrote THEN token_response(net.token) ELSE PyNone,
                             FALSE, b.wrote)
    /\ UNCHANGED <<now, snaps, trips, fetches>>

\* myt.login() on a constructed object
Relogin ==
    /\ pc = "ready"
    /\ \E net \in Nets :
         LET o == login(user_data, net, now)
         IN  /\ user_data' = o.user_data
             /\ userFile' = IF o.wrote THEN o.user_data ELSE userFile
             /\ last' = Last("login", None, now, NoneValue, o.reqs, o.raised, NoResp,
                             IF o.wrote THEN token_response(net.token) ELSE PyNone,
                             FALSE, o.wrote)
    /\ UNCHANGED <<now, headers, pc, snaps, trips, fetches>>

\* The process ends; what it held in memory is gone, the files stay.
Exit ==
    /\ pc \in {"ready", "failed"}
    /\ pc' = "start"
    /\ user_data' = NoneValue
    /\ headers' = NoHeaders
    /\ last' = NoCall
    /\ UNCHANGED <<now, userFile, snaps, trips, fetches>>

\* Time passes.
Tick ==
    /\ now < MaxTime
    /\ now' = now + 1
    /\ UNCHANGED <<userFile, user_data, headers, pc, snaps, trips, fetches, last>>

Next == Construct \/ Relogin \/ Exit \/ Tick

Spec == Init /\ [][Next]_vars

-----------------------------------------------------------------------------
(* Faults while the session record is saved: specification SpecFaults *)

\* line 122: open(path, 'w') empties the file under its final name; until
\* f.write (line 123) has run to its end the file holds nothing, or a part of
\* the new text: no JSON document.
opened_for_writing(file) == FileMalformed

\* The process is killed inside the _write_file of line 209, in a
\* constructor or a login() that got as far as saving the record.
KilledInSave ==
    /\ pc \in {"start", "ready"}
    /\ \E net \in Nets :
         IF pc = "start" THEN Myt_init(userFile, net, now).wrote
                         ELSE login(user_data, net, now).wrote
    /\ userFile' = opened_for_writing(userFile)
    /\ pc' = "start"
    /\ user_data' = NoneValue
    /\ headers' = NoHeaders
    /\ last' = NoCall
    /\ UNCHANGED <<now, snaps, trips, fetches>>

\* The _write_file of line 209 raises: open() refuses the file (it is not
\* writable), so the file stays as it was.  Line 208 has already replaced
\* self.user_data.
SaveFails ==
    /\ pc \in {"start", "ready"}
    /\ \E net \in Nets :
         LET b == IF pc = "start" THEN Myt_init(userFile, net, now)
                  ELSE [login(user_data, net, now) EXCEPT !.raised = NoErr]
                           @@ [loaded |-> NoneValue]
         IN  /\ b.wrote
             /\ user_data' = b.user_data
             /\ last' = Last(IF pc = "start" THEN "init" ELSE "login", None, now,
                             b.loaded, b.reqs, Err("OSError", "", None), NoResp,
                             token_response(net.token), FALSE, FALSE)
    /\ pc' = IF pc = "start" THEN "failed" ELSE pc
    /\ headers' = headers
    /\ UNCHANGED <<now, userFile, snaps, trips, fetches>>

NextFaults == Next \/ KilledInSave \/ SaveFails

SpecFaults == Init /\ [][NextFaults]_vars

-----------------------------------------------------------------------------
(* Response bodies and JSON *)

\* A JSON number as Python holds it: json.loads gives an int for the text 1
\* and a float for the text 1.0, and json.dumps writes each back as it is.
Int(n) == [type |-> "int", n |-> n]
Float(n) == [type |-> "float", n |-> n]

\* Member names, in the order sorted() gives them, and member values.
KeyOrder == << "payload", "timestamp" >>
Keys == { KeyOrder[i] : i \in 1..Len(KeyOrder) }
Vals == { Int(1) }

\* A body is the text of the response (r.text): a JSON object written as the
\* sequence of its members <<name, value>> in the order they appear (a name
\* may appear twice), the text 'null', or a text that is no JSON document.
ObjectTexts == UNION { [1..n -> Keys \X Vals] : n \in 0..MaxLen }
Body(kind, members) == [kind |-> kind, members |-> members]
NullText == Body("null", << >>)
Garbage == Body("garbage", << >>)
Bodies == { Body("object", m) : m \in ObjectTexts } \cup {NullText, Garbage}

\* What the network answers to a data request.
Responses ==
    { [status |-> 200, body |-> b] : b \in Bodies }
    \cup { [status |-> 500, body |-> Garbage] }

\* Answers whose numbers are written as 1 or as 1.0: JSON objects of members
\* of different names, and the text 'null'.
Numbers == { Int(1), Float(1) }
NumberTexts ==
    { m \in UNION { [1..n -> Keys \X Numbers] : n \in 0..MaxLen } :
        \A i, j \in 1..Len(m) : i # j => m[i][1] # m[j][1] }
NumberResponses ==
    { [status |-> 200, body |-> Body("object", m)] : m \in NumberTexts }
    \cup { [status |-> 200, body |-> NullText] }

\* json.loads / r.json(): [raised, value].  In an object the last occurrence
\* of a name wins.
json_loads(text) ==
    CASE text.kind = "garbage" ->
            [raised |-> Err("JSONDecodeError", "", None), value |-> PyNone]
      [] text.kind = "null" -> [raised |-> NoErr, value |-> PyNone]
      [] OTHER ->
            LET m == text.members
                lastAt(k) == CHOOSE i \in 1..Len(m) :
                                /\ m[i][1] = k
                                /\ \A j \in (i+1)..Len(m) : m[j][1] # k
            IN  [raised |-> NoErr,
                 value |-> Value("dict",
                    { <<k, m[lastAt(k)][2]>> : k \in { m[i][1] : i \in 1..Len(m) } })]

\* json.dumps(value, sort_keys=True): the members in the order of their names.
json_dumps_sorted(value) ==
    IF value.kind = "None" THEN NullText
    ELSE LET has(k) == \E it \in value.items : it[1] = k
             names == SelectSeq(KeyOrder, has)
         IN  Body("object",
                  [i \in 1..Len(names) |->
                     CHOOSE it \in value.items : it[1] = names[i]])

-----------------------------------------------------------------------------
(* Files of a category: Myt._find_latest_file, _read_file, _write_file *)

File(name, ctime, body) == [name |-> name, ctime |-> ctime, body |-> body]

\* lines 126-135: the files of greatest creation time, none when the
\* directory has no file of the category (max() takes one of them).
\* (variant: min() for max())
find_oldest_file(dir) ==
    { f \in dir : \A g \in dir : g.ctime >= f.ctime }

find_latest_file(dir) ==
    { f \in dir : \A g \in dir : g.ctime <= f.ctime }

\* lines 100-110: the text of the file, or None when the path is None.
NoText == [kind |-> "None", body |-> Garbage]
read_file(found) ==
    IF found = {} THEN {NoText}
    ELSE { [kind |-> "text", body |-> f.body] : f \in found }

\* lines 113-123: open(path, 'w') creates the file or replaces its contents.
\* The name carries the time read when the method was entered (lines 226,
\* 282, 302, 332, 364); the file is created at time t, after the request has
\* been answered.
write_file(dir, name, t, body) ==
    { f \in dir : f.name # name } \cup { File(name, t, body) }

-----------------------------------------------------------------------------
(* The data retrieval operations *)

Ret(raised, dir, value, fresh, wrote) ==
    [raised |-> raised, dir |-> dir, value |-> value, fresh |-> fresh, wrote |-> wrote]

ApiError == Err("ValueError", "Failed to get data", None)

\* 'r.text != previous' (lines 241, 289, 310): the text against the text of
\* the latest file, or against None.
\* (variant: every text is stored)
text_differs_always(text, prev) == TRUE

text_differs(text, prev) == prev.kind = "None" \/ prev.body # text

\* lines 239-245, 287-292, 308-312: store the text when it differs.
store_text(dir, resp, prev, t) ==
    IF text_differs(resp.body, prev)
    THEN [dir |-> write_file(dir, t, t + 1, resp.body), wrote |-> TRUE]
    ELSE [dir |-> dir, wrote |-> FALSE]

\* Myt.get_trips, lines 224-245
get_trips(dir, resp, prev, t) ==
    IF resp.status # 200 THEN Ret(ApiError, dir, PyNone, FALSE, FALSE)    \* line 236
    ELSE LET st == store_text(dir, resp, prev, t)                           \* lines 240-243
             j == json_loads(resp.body)                                     \* line 244
         IN  IF j.raised # NoErr
             THEN Ret(j.raised, st.dir, PyNone, FALSE, st.wrote)
             ELSE Ret(NoErr, st.dir, j.value, st.wrote, st.wrote)

\* Myt.get_parking, lines 280-292
\* (variant: the status of the answer is not looked at)
get_parking_unchecked(dir, resp, prev, t) ==
    LET st == store_text(dir, resp, prev, t)
        j == json_loads(resp.body)
    IN  IF j.raised # NoErr
        THEN Ret(j.raised, st.dir, PyNone, FALSE, st.wrote)
        ELSE Ret(NoErr, st.dir, j.value, st.wrote, st.wrote)

get_parking(dir, resp, prev, t) ==
    IF resp.status # 200 THEN Ret(ApiError, dir, PyNone, FALSE, FALSE)    \* line 285
    ELSE LET st == store_text(dir, resp, prev, t)                           \* lines 288-291
             j == json_loads(resp.body)                                     \* line 292
         IN  IF j.raised # NoErr
             THEN Ret(j.raised, st.dir, PyNone, FALSE, st.wrote)
             ELSE Ret(NoErr, st.dir, j.value, st.wrote, st.wrote)

\* Myt.get_telemetry, lines 300-322.  r.json()['payload'] raises TypeError on
\* None and KeyError on a dict without 'payload'; the members read below
\* 'payload' (lines 315-320) are taken to be there when 'payload' is.
get_telemetry(dir, resp, prev, t) ==
    IF resp.status # 200 THEN Ret(ApiError, dir, PyNone, FALSE, FALSE)    \* line 306
    ELSE LET st == store_text(dir, resp, prev, t)                           \* lines 309-312
             j == json_loads(resp.body)                                     \* line 313
         IN  CASE j.raised # NoErr ->
                    Ret(j.raised, st.dir, PyNone, FALSE, st.wrote)
               [] j.value.kind = "None" ->
                    Ret(Err("TypeError", "", None), st.dir, PyNone, FALSE, st.wrote)
               [] ~\E it \in j.value.items : it[1] = "payload" ->
                    Ret(Err("KeyError", "", None), st.dir, PyNone, FALSE, st.wrote)
               [] OTHER ->
                    Ret(NoErr, st.dir,
                        Value("dict", { it \in j.value.items : it[1] = "payload" }),
                        st.wrote, st.wrote)

\* Python's == on two parsed documents: None equals None only; two dicts are
\* equal when they have the same names with equal values, and an int equals
\* the float of the same number.
py_eq(a, b) ==
    /\ a.kind = b.kind
    /\ { <<it[1], it[2].n>> : it \in a.items } = { <<it[1], it[2].n>> : it \in b.items }

\* lines 341-347 and 378-384: the parsed response against the parsed latest
\* file; json.loads(None) raises TypeError, which makes 'previous' None.
\* (variant: the texts are compared, as in get_parking)
value_differs_as_text(text, prev) == text_differs(text, prev)

value_differs(text, prev) ==
    ~py_eq(json_loads(text).value,
           IF prev.kind = "None" THEN PyNone ELSE json_loads(prev.body).value)

\* lines 337-350 and 375-388 after the status check.
\* (variant: the text of the response is written as it came)
store_value_raw(dir, resp, prev, t) ==
    LET j == json_loads(resp.body)
    IN  CASE j.raised # NoErr -> Ret(j.raised, dir, PyNone, FALSE, FALSE)
          [] prev.kind = "text" /\ json_loads(prev.body).raised # NoErr ->
                Ret(json_loads(prev.body).raised, dir, PyNone, FALSE, FALSE)
          [] value_differs(resp.body, prev) ->
                Ret(NoErr, write_file(dir, t, t + 1, resp.body), j.value, TRUE, TRUE)
          [] OTHER -> Ret(NoErr, dir, j.value, FALSE, FALSE)

store_value(dir, resp, prev, t) ==
    LET j == json_loads(resp.body)                                  \* lines 337, 375
    IN  CASE j.raised # NoErr -> Ret(j.raised, dir, PyNone, FALSE, FALSE)
          [] prev.kind = "text" /\ json_loads(prev.body).raised # NoErr ->
                Ret(json_loads(prev.body).raised, dir, PyNone, FALSE, FALSE)
          [] value_differs(resp.body, prev) ->                        \* lines 347-349
                Ret(NoErr, write_file(dir, t, t + 1, json_dumps_sorted(j.value)),
                    j.value, TRUE, TRUE)
          [] OTHER -> Ret(NoErr, dir, j.value, FALSE, FALSE)

\* Myt.get_remote_control_status, lines 330-350
get_remote_control_status(dir, resp, prev, t) ==
    IF resp.status # 200 THEN Ret(ApiError, dir, PyNone, FALSE, FALSE)    \* line 335
    ELSE store_value(dir, resp, prev, t)

\* Myt.get_driving_statistics, lines 362-388, once the request is sent
get_driving_statistics(dir, resp, prev, t) ==
    IF resp.status # 200 THEN Ret(ApiError, dir, PyNone, FALSE, FALSE)    \* line 373
    ELSE store_value(dir, resp, prev, t)

\* line 258: 'trip_file.exists()'.
\* (variant: the stored trip is not looked for)
trip_file_exists_never(files, id) == FALSE

trip_file_exists(files, id) == files[id] # << >>

\* Myt.get_trip, lines 254-271.  files[id] is the trip's file: << >> when it
\* does not exist, <<text>> when it does.  sent says whether the request of
\* line 260 went out: building its URL reads user_data['customerProfile']
\* (line 261), KeyError when the record has no such member.
get_trip(files, id, ud, resp) ==
    IF ~trip_file_exists(files, id)                                         \* line 258
    THEN CASE ~ud.legacy ->                                                 \* line 261
                [sent |-> FALSE] @@ Ret(Err("KeyError", "", None), files, PyNone, FALSE, FALSE)
           [] resp.status # 200 ->                                          \* line 262
                [sent |-> TRUE] @@ Ret(ApiError, files, PyNone, FALSE, FALSE)
           [] OTHER ->
                LET files2 == [files EXCEPT ![id] = << resp.body >>]        \* line 265
                    j == json_loads(resp.body)                              \* line 266
                IN  IF j.raised # NoErr
                    THEN [sent |-> TRUE] @@ Ret(j.raised, files2, PyNone, FALSE, TRUE)
                    ELSE [sent |-> TRUE] @@ Ret(NoErr, files2, j.value, TRUE, TRUE)
    ELSE LET j == json_loads(files[id][1])                                  \* lines 269-270
         IN  [sent |-> FALSE] @@ Ret(j.raised, files, j.value, FALSE, FALSE)

-----------------------------------------------------------------------------
(* The data retrieval operations on a constructed object: specification SpecData *)

InitData ==
    /\ now = 0
    /\ \E legacy \in BOOLEAN :
         /\ user_data = SessionRecord("a1", "r1", "u1", 0, legacy)
         /\ userFile = user_data
         /\ headers = make_headers(user_data)
    /\ pc = "ready"
    /\ snaps = [c \in Categories |-> {}]
    /\ trips = [i \in TripIds |-> << >>]
    /\ fetches = [i \in TripIds |-> 0]
    /\ last = NoCall

Status(resp) == IF resp.status = 200 THEN "ok" ELSE "not ok"

\* One call of a method that keeps the snapshots of category c.
\* (variant: the method renews an expired session before its request)
Retrieve_renewing(op, c, url, r, resp) ==
    LET expired == needs_login(user_data, now)
        o == login(user_data, AllGood(CHOOSE b \in TokenBodies : b.kind = "tokens"), now)
    IN  /\ snaps' = [snaps EXCEPT ![c] = r.dir]
        /\ last' = Last(op, c, now, NoneValue,
                        (IF expired THEN o.reqs ELSE << >>)
                            \o << Request(url, None, Status(resp)) >>,
                        r.raised, resp, r.value, r.fresh, r.wrote)
        /\ now' = now + 1
        /\ user_data' = IF expired THEN o.user_data ELSE user_data
        /\ userFile' = IF expired THEN o.user_data ELSE userFile
        /\ UNCHANGED <<headers, pc, trips, fetches>>

Retrieve(op, c, url, r, resp) ==
    /\ snaps' = [snaps EXCEPT ![c] = r.dir]
    /\ last' = Last(op, c, now, NoneValue, << Request(url, None, Status(resp)) >>,
                    r.raised, resp, r.value, r.fresh, r.wrote)
    /\ now' = now + 1
    /\ UNCHANGED <<userFile, user_data, headers, pc, trips, fetches>>

Latest(c) == read_file(find_latest_file(snaps[c]))

GetTrips ==
    /\ pc = "ready" /\ now < MaxCalls
    /\ \E resp \in Responses, prev \in Latest("trips") :
         Retrieve("get_trips", "trips", "trips", get_trips(snaps["trips"], resp, prev, now), resp)

GetParking ==
    /\ pc = "ready" /\ now < MaxCalls
    /\ \E resp \in Responses, prev \in Latest("parking") :
         Retrieve("get_parking", "parking", "location",
                  get_parking(snaps["parking"], resp, prev, now), resp)

GetTelemetry ==
    /\ pc = "ready" /\ now < MaxCalls
    /\ \E resp \in Responses, prev \in Latest("odometer") :
         Retrieve("get_telemetry", "odometer", "telemetry",
                  get_telemetry(snaps["odometer"], resp, prev, now), resp)

\* myt.get_remote_control_status(), answered with one of resps
RemoteControlStatus(resps) ==
    /\ pc = "ready" /\ now < MaxCalls
    /\ \E resp \in resps, prev \in Latest("remote_control") :
         Retrieve("get_remote_control_status", "remote_control", "remote/electric/status",
                  get_remote_control_status(snaps["remote_control"], resp, prev, now), resp)

GetRemoteControlStatus == RemoteControlStatus(Responses)

\* lines 365-366 read user_data['token'] and ['customerProfile'] before the
\* request: KeyError, and no request, when the record has not these members.
DrivingStatistics(resps) ==
    /\ pc = "ready" /\ now < MaxCalls
    /\ IF user_data.legacy
       THEN \E resp \in resps, prev \in Latest("statistics") :
              Retrieve("get_driving_statistics", "statistics", "trips/summarize",
                       get_driving_statistics(snaps["statistics"], resp, prev, now), resp)
       ELSE /\ last' = Last("get_driving_statistics", "statistics", now, NoneValue, << >>,
                            Err("KeyError", "", None), NoResp, PyNone, FALSE, FALSE)
            /\ now' = now + 1
            /\ UNCHANGED <<userFile, user_data, headers, pc, snaps, trips, fetches>>

GetDrivingStatistics == DrivingStatistics(Responses)

GetTrip ==
    /\ pc = "ready" /\ now < MaxCalls
    /\ \E id \in TripIds, resp \in Responses :
         LET r == get_trip(trips, id, user_data, resp)
         IN  /\ trips' = r.dir
             /\ fetches' = IF r.sent THEN [fetches EXCEPT ![id] = @ + 1] ELSE fetches
             /\ last' = Last("get_trip", id, now, NoneValue,
                             IF r.sent THEN << Request("trip", id, Status(resp)) >> ELSE << >>,
                             r.raised, IF r.sent THEN resp ELSE NoResp,
                             r.value, r.fresh, r.wrote)
    /\ now' = now + 1
    /\ UNCHANGED <<userFile, user_data, headers, pc, snaps>>

NextData ==
    \/ GetRemoteControlStatus \/ GetDrivingStatistics
    \/ GetTrips \/ GetTrip \/ GetParking \/ GetTelemetry

SpecData == InitData /\ [][NextData]_vars

\* The methods that compare texts, the methods that compare parsed values,
\* and get_trip, each on its own.
NextText == GetTrips \/ GetParking \/ GetTelemetry
SpecText == InitData /\ [][NextText]_vars

NextValue == GetRemoteControlStatus \/ GetDrivingStatistics
SpecValue == InitData /\ [][NextValue]_vars

NextTrip == GetTrip
SpecTrip == InitData /\ [][NextTrip]_vars

\* The methods that compare parsed values, answered with numbers in both
\* spellings: specification SpecNumbers.
GetRemoteControlStatusNumbers == RemoteControlStatus(NumberResponses)
GetDrivingStatisticsNumbers == DrivingStatistics(NumberResponses)
NextNumbers == GetRemoteControlStatusNumbers \/ GetDrivingStatisticsNumbers
SpecNumbers == InitData /\ [][NextNumbers]_vars

-----------------------------------------------------------------------------
(* Properties of the session lifecycle *)

\* A step that runs the constructor.
Constructing == pc = "start" /\ pc' # "start"

Kinds(reqs) == [i \in 1..Len(reqs) |-> reqs[i].kind]
Args(reqs) == [i \in 1..Len(reqs) |-> reqs[i].arg]

\* The requests of the interactive login flow, in the order of lines 150-182.
InteractiveKinds ==
    << "authenticate", "authenticate", "authenticate", "authenticate",
       "authorize", "token_authorization_code" >>
InteractiveArgs ==
    << "init", "context", "username", "password", "tokenId", "code" >>

IsPrefix(s, t) == Len(s) <= Len(t) /\ s = SubSeq(t, 1, Len(s))

\* C1: constructing Myt with a stored session record whose expiration is
\* strictly later than the current time sends no request at all (no login,
\* no refresh), writes nothing, and leaves the record in memory and the
\* record on disk as they were loaded.
C1_ValidSessionNoLogin ==
    [][ (Constructing /\ userFile.kind = "dict" /\ userFile.expiration > now)
        => /\ last'.reqs = << >>
           /\ ~last'.wrote
           /\ user_data' = userFile
           /\ userFile' = userFile
           /\ pc' = "ready" ]_vars

C1_Witness ==
    /\ last.op = "init" /\ pc = "ready"
    /\ last.loaded.kind = "dict" /\ last.loaded.expiration > last.t
    /\ last.reqs = << >> /\ user_data = last.loaded

\* C2: constructing Myt with no stored session record starts the interactive
\* login flow: the first authenticate request is sent, and when every answer
\* is good the object is constructed with a stored session record.
C2_NoSessionStartsLogin ==
    [][ (Constructing /\ userFile.kind = "absent")
        => /\ Len(last'.reqs) >= 1
           /\ last'.reqs[1].kind = "authenticate"
           /\ (last'.raised = NoErr => pc' = "ready" /\ userFile'.kind = "dict") ]_vars

\* C3: constructing Myt with a stored record whose expiration is in the past
\* and that has no refresh token runs the interactive flow and nothing else:
\* the requests sent are authenticate (four rounds), authorize and the
\* authorization_code token request, in that order, up to the first answer
\* that makes login() raise; all six when login() succeeds; never a
\* refresh_token request.
C3_ExpiredNoRefreshTokenInteractive ==
    [][ (Constructing /\ userFile.kind = "dict" /\ now > userFile.expiration
            /\ userFile.refresh_token = NoKey)
        => /\ Len(last'.reqs) >= 1
           /\ IsPrefix(Kinds(last'.reqs), InteractiveKinds)
           /\ IsPrefix(Args(last'.reqs), InteractiveArgs)
           /\ (last'.raised = NoErr => Len(last'.reqs) = Len(InteractiveKinds))
           /\ \A i \in 1..Len(last'.reqs) : last'.reqs[i].kind # "token_refresh" ]_vars

C3_Witness ==
    /\ last.op = "init" /\ pc = "ready"
    /\ last.loaded.kind = "dict" /\ last.t > last.loaded.expiration
    /\ last.loaded.refresh_token = NoKey
    /\ Kinds(last.reqs) = InteractiveKinds

\* C4: constructing Myt with a stored record whose expiration is in the past
\* and that has a refresh token sends exactly one request: the token request
\* with grant_type refresh_token carrying the stored refresh token.  No
\* authenticate, authorize or authorization_code request is sent.
C4_ExpiredWithRefreshTokenRefreshes ==
    [][ (Constructing /\ userFile.kind = "dict" /\ now > userFile.expiration
            /\ userFile.refresh_token # NoKey)
        => /\ Len(last'.reqs) = 1
           /\ last'.reqs[1].kind = "token_refresh"
           /\ last'.reqs[1].arg = userFile.refresh_token ]_vars

C4_Witness ==
    /\ last.op = "init" /\ pc = "ready"
    /\ last.loaded.kind = "dict" /\ last.t > last.loaded.expiration
    /\ last.loaded.refresh_token = "r1"
    /\ Kinds(last.reqs) = << "token_refresh" >>
    /\ user_data.access_token = "a2"

\* C5: when the refresh request gets a non-success answer, login() raises:
\* that request is the only one sent (no retry, no interactive login), and a
\* constructor that was running it does not complete.
C5_RefreshFailureIsFatal ==
    (last.reqs # << >> /\ last.reqs[1].kind = "token_refresh"
        /\ last.reqs[1].resp = "not ok")
    => /\ Len(last.reqs) = 1
       /\ last.raised = Err("ValueError", "refresh token failed", None)
       /\ ~last.wrote
       /\ (last.op = "init" => pc = "failed" /\ headers = NoHeaders)

C5_Witness ==
    /\ last.op = "init" /\ pc = "failed"
    /\ Kinds(last.reqs) = << "token_refresh" >>
    /\ last.reqs[1].resp = "not ok"

\* C6: in the interactive flow, when the answer to the username has no
\* password slot, login() raises and the username request is the last one
\* sent: no password submission, no authorize, no token request.  When the
\* answer is the provider's message, the error is the login error carrying
\* that message.
C6_MissingPasswordSlotStopsLogin ==
    (Len(last.reqs) >= 3 /\ last.reqs[3].arg = "username"
        /\ last.reqs[3].resp # "challenge")
    => /\ Len(last.reqs) = 3
       /\ last.raised # NoErr
       /\ ~last.wrote
       /\ (last.reqs[3].resp \in Messages
            => last.raised = Err("ValueError", "check your username", last.reqs[3].resp))

C6_Witness ==
    /\ Len(last.reqs) = 3 /\ last.reqs[3].arg = "username"
    /\ last.reqs[3].resp = "m2"
    /\ last.raised = Err("ValueError", "check your username", "m2")

-----------------------------------------------------------------------------
(* Properties of the data retrieval operations *)

TextOps == {"get_trips", "get_parking", "get_telemetry"}
ValueOps == {"get_remote_control_status", "get_driving_statistics"}

\* A step that is a call of one of the methods ops and got an answer.
Called(ops) == last' # last /\ last'.op \in ops /\ last'.reqs # << >>

\* Before the step, the latest file of category c holds exactly this text.
LatestIs(c, text) == \A prev \in Latest(c) : prev.kind = "text" /\ prev.body = text

\* Before the step, the latest file of category c parses to the same value
\* as this text.
LatestParsesLike(c, text) ==
    /\ json_loads(text).raised = NoErr
    /\ \A prev \in Latest(c) :
          /\ prev.kind = "text"
          /\ json_loads(prev.body).raised = NoErr
          /\ json_loads(prev.body).value = json_loads(text).value

\* C7: get_trips, get_parking and get_telemetry compare texts.  A call whose
\* body is the text of the latest snapshot of its category writes nothing and
\* does not report fresh; a call that returns reports fresh exactly when it
\* wrote a snapshot; and of two consecutive calls of a method that get the
\* same body, the second writes nothing.
C7_SameTextNotStored ==
    [][ Called(TextOps) /\ last'.resp.status = 200
        => LET c == last'.arg
           IN  /\ LatestIs(c, last'.resp.body)
                    => snaps'[c] = snaps[c] /\ ~last'.fresh /\ ~last'.wrote
               /\ last'.raised = NoErr
                    => (last'.fresh <=> snaps'[c] # snaps[c])
               /\ (last.op = last'.op /\ last.resp = last'.resp)
                    => snaps'[c] = snaps[c] /\ ~last'.fresh ]_vars

C7_Witness ==
    /\ last.op = "get_parking" /\ last.raised = NoErr /\ last.resp.status = 200
    /\ ~last.fresh /\ ~last.wrote
    /\ now = 2
    /\ snaps["parking"] = { File(0, 1, last.resp.body) }

\* C8: get_remote_control_status and get_driving_statistics compare parsed
\* values.  A call whose body parses to the value the latest snapshot of its
\* category parses to, whatever the order of the members in the text, writes
\* nothing and returns fresh = false.
C8_EqualValueNotStored ==
    [][ (Called(ValueOps) /\ last'.resp.status = 200
            /\ LatestParsesLike(last'.arg, last'.resp.body))
        => /\ snaps'[last'.arg] = snaps[last'.arg]
           /\ last'.raised = NoErr
           /\ ~last'.fresh /\ ~last'.wrote ]_vars

C8_Witness ==
    /\ last.op = "get_remote_control_status" /\ last.raised = NoErr
    /\ last.resp.body = Body("object", << <<"timestamp", Int(1)>>, <<"payload", Int(1)>> >>)
    /\ snaps["remote_control"] =
          { File(0, 1, Body("object", << <<"payload", Int(1)>>, <<"timestamp", Int(1)>> >>)) }
    /\ ~last.fresh /\ ~last.wrote

\* C9: in every category and under both comparisons, a call that gets a JSON
\* document with status 200 while the category holds no snapshot stores it
\* and returns fresh = true.
C9_FirstFetchStored ==
    [][ (Called(TextOps \cup ValueOps) /\ last'.resp.status = 200
            /\ json_loads(last'.resp.body).raised = NoErr
            /\ snaps[last'.arg] = {})
        => /\ snaps'[last'.arg] # {}
           /\ last'.raised = NoErr
           /\ last'.fresh ]_vars

\* C10 as stated: for every trip identifier, over any sequence of get_trip
\* calls, the request for that trip is sent at most once.
C10_AtMostOneFetch == \A id \in TripIds : fetches[id] <= 1

\* C10 amended: a request for a trip that is answered with status 200 stores
\* the trip, and once a trip is stored no get_trip call sends a request for it
\* or changes its file.  (A request answered with another status stores
\* nothing, and the next call sends the request again.)
C10_NoFetchOnceStored ==
    [][ \A id \in TripIds :
          /\ trips[id] # << >>
                => fetches'[id] = fetches[id] /\ trips'[id] = trips[id]
          /\ (fetches'[id] > fetches[id] /\ last'.resp.status = 200)
                => trips'[id] = << last'.resp.body >> ]_vars

C10_Witness ==
    /\ last.op = "get_trip" /\ last.arg = "t1"
    /\ last.reqs = << >> /\ last.raised = NoErr /\ ~last.fresh
    /\ trips["t1"] # << >>
    /\ fetches["t1"] = 1
    /\ now = 2

\* C11: when trips are retrieved one after another with get_trip, a request
\* is sent exactly for the identifiers that have no stored file when they are
\* asked for; a call that returns has fresh = false and the parsed stored
\* text when the trip was stored, and fresh = true when it was not.
C11_FetchExactlyUncached ==
    [][ (last' # last /\ last'.op = "get_trip")
        => LET id == last'.arg
               cached == trips[id] # << >>
           IN  /\ (fetches'[id] = fetches[id] + 1) <=> ~cached
               /\ cached => fetches'[id] = fetches[id] /\ trips' = trips
               /\ \A other \in TripIds \ {id} : fetches'[other] = fetches[other]
               /\ last'.raised = NoErr
                    => /\ last'.fresh <=> ~cached
                       /\ cached => last'.value = json_loads(trips[id][1]).value ]_vars

-----------------------------------------------------------------------------
(* Properties of saving the session record *)

\* C12: saving the session record is atomic: whenever the session file
\* changes, also when the process is killed during the save, the file holds a
\* complete record (the new one); it is never left empty or truncated.
C12_SaveIsAtomic ==
    [][ userFile' # userFile => userFile'.kind = "dict" ]_vars

\* A step in which __init__ or login() ran the refresh flow and it succeeded.
Refreshed ==
    /\ last' # last /\ last'.op \in {"init", "login"}
    /\ last'.raised = NoErr /\ Kinds(last'.reqs) = << "token_refresh" >>

\* The session record login() started from: the one __init__ loaded, or the
\* one the object held.
RecordBefore == IF last'.op = "init" THEN last'.loaded ELSE user_data

\* C13: after a successful refresh whose response has no refresh_token, the
\* session record in memory and the one in the session file still hold the
\* refresh token of the record the refresh started from.
C13_RefreshKeepsRefreshToken ==
    [][ (Refreshed /\ ~\E it \in last'.value.items : it[1] = "refresh_token")
        => /\ user_data'.refresh_token = RecordBefore.refresh_token
           /\ userFile'.refresh_token = RecordBefore.refresh_token ]_vars

-----------------------------------------------------------------------------
(* Properties of the data retrieval operations as a whole *)

DataOps == TextOps \cup ValueOps \cup {"get_trip"}

\* C14: a data retrieval call whose request is answered with a status other
\* than 200 raises the error of the status check, has sent exactly that one
\* request, and writes nothing: the snapshots of every category and the
\* stored trips are what they were before the call.
C14_NonSuccessFailsWithoutStoring ==
    [][ (Called(DataOps) /\ last'.resp.status # 200)
        => /\ last'.raised = ApiError
           /\ Len(last'.reqs) = 1
           /\ ~last'.wrote
           /\ snaps' = snaps
           /\ trips' = trips ]_vars

\* get_parking got a non-200 answer while a parking snapshot was stored.
C14_Witness ==
    /\ last.op = "get_parking" /\ last.resp.status # 200 /\ last.raised = ApiError
    /\ snaps["parking"] # {}

-----------------------------------------------------------------------------
(* Properties of loading and renewing the session record *)

\* The constructor ended in _get_user_data: the JSON error of line 91, and
\* nothing was sent.
LoadRaised == last'.raised.type = "JSONDecodeError" /\ last'.reqs = << >>

C16_AppendOnlyLatestIsNewest ==
    [][ \A c \in Categories :
          /\ snaps[c] \subseteq snaps'[c]
          /\ Cardinality(find_latest_file(snaps'[c])) <= 1
          /\ \A f \in find_latest_file(snaps'[c]) :
                \A g \in snaps'[c] \ {f} : g.name < f.name ]_vars

\* A category holds two snapshots.
C16_Witness ==
    \E c \in Categories : Cardinality(snaps[c]) >= 2

LoginKinds == {"authenticate", "authorize", "token_authorization_code", "token_refresh"}

\* C17: on a constructed object no data retrieval call sends a request of
\* login() (authenticate, authorize, token) or changes the session record in
\* memory, the session file or the headers, also when the call is made
\* after the expiration of the record.
C17_DataCallsLeaveSessionAlone ==
    [][ (last' # last /\ last'.op \in DataOps)
        => /\ user_data' = user_data
           /\ userFile' = userFile
           /\ headers' = headers
           /\ \A i \in 1..Len(last'.reqs) : last'.reqs[i].kind \notin LoginKinds ]_vars

\* A data retrieval call made after the expiration of the session returned.
C17_Witness ==
    /\ last.op \in DataOps /\ last.t > user_data.expiration
    /\ last.reqs # << >> /\ last.raised = NoErr

-----------------------------------------------------------------------------
(* Properties of the stored form of a parsed value *)

ValueCategories == {"remote_control", "statistics"}

\* The parsed document a stored file holds.
Parsed(f) == json_loads(f.body).value

\* The files the step has added to the category of the call.
Added == snaps'[last'.arg] \ snaps[last'.arg]

\* The text has every name once, in sorted order (or is 'null').
IsCanonical(text) ==
    \/ text.kind = "null"
    \/ /\ text.kind = "object"
       /\ \A i, j \in 1..Len(text.members) :
             i < j => \E p, q \in 1..Len(KeyOrder) :
                         /\ p < q
                         /\ KeyOrder[p] = text.members[i][1]
                         /\ KeyOrder[q] = text.members[j][1]

\* C18 as stated: a snapshot stored by get_remote_control_status or
\* get_driving_statistics parses to a value equal (Python's ==) to the
\* fetched payload, and any two stored snapshots whose payloads are equal
\* in that sense are the same text.
C18_DeepEqualStoredIdentical ==
    [][ (Called(ValueOps) /\ last'.wrote)
        => /\ \A f \in Added : py_eq(Parsed(f), json_loads(last'.resp.body).value)
           /\ \A c, d \in ValueCategories : \A f \in snaps'[c], g \in snaps'[d] :
                 py_eq(Parsed(f), Parsed(g)) => f.body = g.body ]_vars

\* C18, amended: the stored snapshot has every name once in sorted order and
\* parses to the fetched payload, each number with the type (int or float)
\* it came with; any two stored snapshots whose payloads have the same
\* members, with equal values of the same type, are the same text.
C18_StoredSortedAndTyped ==
    [][ (Called(ValueOps) /\ last'.wrote)
        => /\ Added # {}
           /\ \A f \in Added :
                 /\ IsCanonical(f.body)
                 /\ Parsed(f) = json_loads(last'.resp.body).value
                 /\ py_eq(Parsed(f), json_loads(last'.resp.body).value)
           /\ \A c, d \in ValueCategories : \A f \in snaps'[c], g \in snaps'[d] :
                 Parsed(f) = Parsed(g) => f.body = g.body ]_vars

\* get_driving_statistics stored a payload that came with its members out
\* of order and with a float, beside a snapshot of the other method.
C18_Witness ==
    /\ last.op = "get_driving_statistics" /\ last.wrote
    /\ last.resp.body = Body("object", << <<"timestamp", Float(1)>>, <<"payload", Int(1)>> >>)
    /\ \E f \in snaps["statistics"] :
          f.body = Body("object", << <<"payload", Int(1)>>, <<"timestamp", Float(1)>> >>)
    /\ snaps["remote_control"] # {}

\* A step in which __init__ or login() obtained tokens and stored the record.
LoggedIn == last' # last /\ last'.op \in {"init", "login"} /\ last'.wrote

\* C19 as stated: when the constructor has logged in or refreshed, the
\* record in memory and the record in the session file expire strictly
\* after the time at which the constructor ends.
C19_ExpirationInFuture ==
    [][ (LoggedIn /\ last'.op = "init")
        => /\ user_data'.expiration > now'
           /\ userFile'.expiration > now' ]_vars

\* C19, amended: after a successful login or refresh the record in memory
\* and the one in the session file are the same record, whose expiration is
\* the time of the login plus the expires_in of the token response: not
\* before that time, and strictly after it exactly when expires_in > 0.
C19_ExpirationIsLoginTimePlusLifetime ==
    [][ LoggedIn
        => /\ userFile' = user_data'
           /\ \E e \in 0..MaxLife :
                /\ <<"expires_in", e>> \in last'.value.items
                /\ user_data'.expiration = last'.t + e
                /\ user_data'.expiration >= now'
                /\ user_data'.expiration > now' <=> e > 0 ]_vars

\* A constructor at a time after 0 logged in with a lifetime of 0.
C19_Witness ==
    /\ last.op = "init" /\ last.wrote /\ pc = "ready" /\ last.t > 0
    /\ <<"expires_in", 0>> \in last.value.items
    /\ user_data.expiration = last.t /\ now = last.t

\* A step in which login() was called, by __init__ or on the object, and raised.
LoginFailed ==
    /\ last' # last /\ last'.raised # NoErr
    /\ last'.op = "login" \/ (last'.op = "init" /\ ~LoadRaised)

\* C20: when login() raises, whatever step of it failed, the session file is
\* what it was before the call and the record in memory is the record
\* login() started from.
C20_FailedLoginChangesNothing ==
    [][ LoginFailed
        => /\ userFile' = userFile
           /\ user_data' = RecordBefore ]_vars

-----------------------------------------------------------------------------
(* Properties of the request headers *)

\* C21: on a constructed object, in every state, also after a later call
\* of login(), the headers of the data requests are the ones made from the
\* session record the object holds: its access token and its uuid.
C21_HeadersOfCurrentSession ==
    pc = "ready" => headers = make_headers(user_data)

-----------------------------------------------------------------------------
(* Properties of storing and returning *)

\* C22: a call of get_trips, get_parking, get_telemetry or get_trip that
\* writes a file (a snapshot of its category, or the trip's file) returns,
\* and returns fresh = true: none of them stores a payload and then raises.
C22_WrittenOnlyWhenReturnedFresh ==
    [][ (last' # last /\ last'.op \in TextOps \cup {"get_trip"}
            /\ (last'.wrote \/ snaps' # snaps \/ trips' # trips))
        => /\ last'.raised = NoErr
           /\ last'.fresh ]_vars

====
